---- MODULE Spec2Model ----
(***************************************************************************)
(* Model of mongoist's bulk batch accumulator (class Bulk, class Command,  *)
(* class FindSyntax, function each) and of its lazy cursor adapter (class  *)
(* Cursor), translated from src/unnamed/part_001, with the Bulk and Cursor *)
(* factories of src/src/lib/collection.ts.                                 *)
(*                                                                         *)
(* JavaScript objects are held by reference: the Command objects of one    *)
(* Bulk live in `heap` and `cmds` / `currentCmd` hold indices into it, so  *)
(* that one Command object reachable through two references is one object. *)
(***************************************************************************)
EXTENDS Integers, Sequences, FiniteSets, TLC

----------------------------------------------------------------------------
(* Bounds of the exploration.                                              *)

\* The source sets MAX_BULK_SIZE to 1000 (part_001:4).  The batching is
\* explored with the cap scaled down so that runs longer than the cap, and
\* runs of two and a half caps (the 2500-insert scenario), are reachable;
\* every formula below is stated in terms of MAX_BULK_SIZE.
MAX_BULK_SIZE == 2

\* Largest number of insert / find-terminal calls made on one Bulk.
MaxOps == 6

\* Largest number of tojson() calls made on one Bulk.
MaxTojson == 1

\* Largest number of write errors the store reports during one execute().
MaxWriteErrors == 2

\* Largest number of consuming calls made on the Cursors.
MaxCalls == 2

\* Largest number of configuration-setter and addCursorFlag calls.
MaxSets == 2

\* Number of documents in the result sequence of a query.
NumDocs == 2

\* Largest number of promises of the store (of the cursor factory, of a
\* handle) that reject while the Cursors are used.
MaxFailures == 1

----------------------------------------------------------------------------
(* JavaScript values.                                                      *)

Num(n) == [t |-> "number", v |-> n]
NaN == [t |-> "NaN", v |-> 0]
Undefined == [t |-> "undefined", v |-> 0]

\* a + b for a, b numbers, NaN or undefined (what `+=` computes at
\* part_001:119): undefined and NaN operands give NaN.
JsPlus(a, b) ==
  IF a.t = "number" /\ b.t = "number" THEN Num(a.v + b.v) ELSE NaN

\* obj[key] of a JavaScript object held as a function from its own keys.
GetProp(obj, key) == IF key \in DOMAIN obj THEN obj[key] ELSE Undefined

\* obj[key] = value
SetProp(obj, key, value) ==
  [k \in DOMAIN obj \cup {key} |-> IF k = key THEN value ELSE obj[k]]

\* The reference held by an unassigned or null field.
NullRef == 0

----------------------------------------------------------------------------
(* class Command (part_001:6-32).                                          *)

colName == "col"

writeConcern == [w |-> 1]

\* new Command(ordered, writeConcern): the four own fields of the object.
NewCommand(ord, wc) ==
  [ordered |-> ord, writeConcern |-> wc,
   cmdNames |-> <<>>, bulkCollections |-> <<>>]

setCmdName(cmd, cmdName, col) ==
  [cmd EXCEPT !.cmdNames = SetProp(cmd.cmdNames, cmdName, col)]

setBulkCollection(cmd, bulkCollection) ==
  [cmd EXCEPT !.bulkCollections = SetProp(cmd.bulkCollections, bulkCollection, <<>>)]

\* getCmdName: TRUE when the lookup is truthy (the name was set).
getCmdName(cmd, cmdName) == cmdName \in DOMAIN cmd.cmdNames

getBulkCollection(cmd, bulkCollection) == cmd.bulkCollections[bulkCollection]

\* Object.keys(cmd): the own enumerable keys of a Command instance.  The
\* order of the declared fields depends on how class fields are emitted by
\* the TypeScript build (define semantics: declaration order; otherwise the
\* initialised fields first, then the constructor's assignments).
CommandKeyOrders ==
  { <<"ordered", "writeConcern", "cmdNames", "bulkCollections">>,
    <<"cmdNames", "bulkCollections", "ordered", "writeConcern">> }

\* `cmd.key` is truthy, for the lookups tojson makes on a Command
\* (part_001:158-162): the own fields of a Command are the four above.
HasProp(cmd, key) == key \in DOMAIN cmd

----------------------------------------------------------------------------
(* State.                                                                  *)

VARIABLES
  \* ---- class Bulk (part_001:34-173)
  ordered,      \* Bulk.ordered
  heap,         \* the Command objects created so far, by reference
  cmds,         \* Bulk.cmds: references into heap
  currentCmd,   \* Bulk.currentCmd: a reference, or NullRef
  pc,           \* "building", "connecting", "running" (a Command in flight),
                \* "merged" (its response merged, the then of each due),
                \* "finishing" (the last then due), "resolved", "rejected"
  idx,          \* the idx of the running call of each() (0-based)
  inflight,     \* indices of cmds passed to connection.command, no response yet
  connection,   \* what connect() resolved with: "none" yet, "db" or "null"
  result,       \* the result object of the running execute()
  \* ---- what the caller and the store have seen (history)
  issued,       \* the operations in the order the caller issued them
  submitted,    \* the Commands passed to connection.command, as submitted
  responses,    \* the cmdResult received for each submitted Command
  stats         \* the objects returned by tojson(), in call order, each with
                \* the number of operations issued when it was called

VARIABLES
  \* ---- class Cursor (part_001:229-370)
  cursors,      \* the Cursor instances constructed so far: _options, _flags
                \* (own keys in insertion order) and cursor (a handle, or NullRef)
  proto,        \* Cursor.prototype[operation]: the instance the installed
                \* arrow function captured as `this`, or NullRef
  handles,      \* the remote cursor handles the factories have produced
  calls,        \* the consuming calls made so far, pending and settled
  \* ---- history
  factoryCalls, \* per Cursor instance, the number of cursorFactory() calls
  setterLog,    \* the setter calls: the instance called on, the instance
                \* whose _options changed, the instance returned
  iter          \* the running map() / forEach(): where its loop stands, the
                \* documents fn was given and the array of map

cursorVars == <<cursors, proto, handles, calls, factoryCalls, setterLog,
                iter>>

bulkVars == <<ordered, heap, cmds, currentCmd, pc, idx, inflight,
              connection, result,
              issued, submitted, responses, stats>>

vars == <<bulkVars, cursorVars>>

----------------------------------------------------------------------------
(* class Bulk: accumulation (part_001:61-101).                             *)

\* ensureFlush without the test of the bucket's length.
ensureFlushNoCap(h, cur, cmdName, bulkCollection) ==
  /\ cur # NullRef
  /\ ~getCmdName(h[cur], cmdName)

\* The condition of the first `if` of ensureCommand (part_001:62).
ensureFlush(h, cur, cmdName, bulkCollection) ==
  /\ cur # NullRef
  /\ \/ ~getCmdName(h[cur], cmdName)
     \/ Len(getBulkCollection(h[cur], bulkCollection)) = MAX_BULK_SIZE

\* ensureCommand putting a closed Command at the front of the list.
ensureCommandUnshift(h, cs, cur, ord, cmdName, bulkCollection) ==
  LET flush == ensureFlush(h, cur, cmdName, bulkCollection)
      cs1 == IF flush THEN <<cur>> \o cs ELSE cs
      cur1 == IF flush THEN NullRef ELSE cur
      fresh == setBulkCollection(
                 setCmdName(NewCommand(ord, writeConcern), cmdName, colName),
                 bulkCollection)
  IN IF cur1 = NullRef
     THEN [heap |-> Append(h, fresh), cmds |-> cs1, currentCmd |-> Len(h) + 1]
     ELSE [heap |-> h, cmds |-> cs1, currentCmd |-> cur1]

\* ensureCommand: the heap, the list and the current Command it leaves.
ensureCommand(h, cs, cur, ord, cmdName, bulkCollection) ==
  LET flush == ensureFlush(h, cur, cmdName, bulkCollection)
      cs1 == IF flush THEN Append(cs, cur) ELSE cs
      cur1 == IF flush THEN NullRef ELSE cur
      fresh == setBulkCollection(
                 setCmdName(NewCommand(ord, writeConcern), cmdName, colName),
                 bulkCollection)
  IN IF cur1 = NullRef
     THEN [heap |-> Append(h, fresh), cmds |-> cs1, currentCmd |-> Len(h) + 1]
     ELSE [heap |-> h, cmds |-> cs1, currentCmd |-> cur1]

\* cmd.getBulkCollection(bulkCollection).push(op) on the Command ensureCommand
\* returned.
PushOp(cmdName, bulkCollection, op) ==
  LET e == ensureCommand(heap, cmds, currentCmd, ordered, cmdName, bulkCollection)
  IN /\ heap' = [e.heap EXCEPT ![e.currentCmd].bulkCollections[bulkCollection] =
                                   Append(@, op)]
     /\ cmds' = e.cmds
     /\ currentCmd' = e.currentCmd
     /\ issued' = Append(issued, [cmdName |-> cmdName, op |-> op])

\* The caller issues its k-th operation: documents and queries are told
\* apart by the serial number k.
Serial == Len(issued) + 1

CanIssue == pc = "building" /\ Len(issued) < MaxOps

\* new ObjectId(): a fresh identifier.
NewObjectId(k) == [oid |-> k]

\* Bulk.insert(doc) (part_001:96-101), doc with or without an _id.
Insert(hasId) ==
  /\ CanIssue
  /\ LET doc == [serial |-> Serial,
                 _id |-> IF hasId THEN [given |-> Serial] ELSE NewObjectId(Serial)]
     IN PushOp("insert", "documents", doc)
  /\ UNCHANGED <<ordered, pc, idx, inflight, connection, result,
                 submitted, responses, stats>>
  /\ UNCHANGED cursorVars

\* Bulk.find(q) with an optional .upsert() and then update(u) (multi),
\* updateOne(u) or replaceOne(u) (not multi) (part_001:84-87, 188-212).
Update(multi, upsert) ==
  /\ CanIssue
  /\ PushOp("update", "updates",
            [q |-> Serial, u |-> Serial, multi |-> multi, upsert |-> upsert])
  /\ UNCHANGED <<ordered, pc, idx, inflight, connection, result,
                 submitted, responses, stats>>
  /\ UNCHANGED cursorVars

\* Bulk.find(q).remove() (limit 0) or removeOne() (limit 1)
\* (part_001:79-82, 194-200).
Remove(limit) ==
  /\ CanIssue
  /\ PushOp("delete", "deletes", [q |-> Serial, limit |-> limit])
  /\ UNCHANGED <<ordered, pc, idx, inflight, connection, result,
                 submitted, responses, stats>>
  /\ UNCHANGED cursorVars

----------------------------------------------------------------------------
(* Bulk.tojson (part_001:145-168).                                         *)

RECURSIVE SumOps(_, _, _, _)
\* The sum, over the Commands of cs, of the length of cmd[bucket] for the
\* Commands where cmd[name] is truthy and no earlier branch of the
\* if / else-if chain was taken (earlier: the names in `before`).
SumOps(h, cs, name, before) ==
  IF cs = <<>> THEN 0
  ELSE LET cmd == h[Head(cs)]
           taken == /\ HasProp(cmd, name.key)
                    /\ \A b \in before : ~HasProp(cmd, b)
       IN (IF taken THEN Len(cmd[name.bucket]) ELSE 0)
          + SumOps(h, Tail(cs), name, before)

\* The list tojson leaves in this.cmds (part_001:146-148).
tojsonCmds(cs, cur) == IF cur # NullRef THEN Append(cs, cur) ELSE cs

\* The object tojson returns.
tojsonObj(h, cs) ==
  [nInsertOps |-> SumOps(h, cs, [key |-> "insert", bucket |-> "documents"], {"update"}),
   nUpdateOps |-> SumOps(h, cs, [key |-> "update", bucket |-> "updates"], {}),
   nRemoveOps |-> SumOps(h, cs, [key |-> "delete", bucket |-> "deletes"], {"update", "insert"}),
   nBatches |-> Len(cs)]

\* tojson() / toString(), called at any time: while the Bulk accumulates
\* and between the callbacks of a running execute().
Tojson ==
  /\ Len(stats) < MaxTojson
  /\ cmds' = tojsonCmds(cmds, currentCmd)
  /\ stats' = Append(stats, [obj |-> tojsonObj(heap, cmds'), at |-> Len(issued)])
  /\ UNCHANGED <<ordered, heap, currentCmd, pc, idx, inflight, connection,
                 result, issued, submitted, responses>>
  /\ UNCHANGED cursorVars

----------------------------------------------------------------------------
(* Bulk.execute (part_001:103-137) and each (part_001:216-224).            *)

\* Bulk.cmdKeys (part_001:40-44).
cmdKeys == [insert |-> "nInserted", delete |-> "nRemoved", update |-> "nUpserted"]

\* The list pushCurrentCmd leaves in this.cmds (part_001:139-143).
pushCurrentCmd(cs, cur) == IF cur # NullRef THEN Append(cs, cur) ELSE cs

\* The result object execute() starts from (part_001:106-115).
NewResult ==
  [k \in {"writeErrors", "writeConcernErrors", "upserted",
          "nInserted", "nUpserted", "nMatched", "nModified", "nRemoved"} |->
     IF k \in {"writeErrors", "writeConcernErrors", "upserted"}
     THEN <<>> ELSE Num(0)]

\* setResult putting the write errors of a response before the ones already
\* collected.
setResultPrepend(res, keys, cmdResult) ==
  LET cmdKey == keys[1]
      key == IF cmdKey \in DOMAIN cmdKeys THEN cmdKeys[cmdKey] ELSE "undefined"
      res1 == SetProp(res, key, JsPlus(GetProp(res, key), Num(cmdResult.n)))
  IN IF "writeErrors" \in DOMAIN cmdResult
     THEN SetProp(res1, "writeErrors", cmdResult.writeErrors \o res1["writeErrors"])
     ELSE res1

\* setResult(cmd, cmdResult) (part_001:117-127), with keys = Object.keys(cmd):
\* the result object it leaves.  A key that cmdKeys does not hold looks up
\* undefined, which names the property "undefined" of the result.
setResult(res, keys, cmdResult) ==
  LET cmdKey == keys[1]
      key == IF cmdKey \in DOMAIN cmdKeys THEN cmdKeys[cmdKey] ELSE "undefined"
      res1 == SetProp(res, key, JsPlus(GetProp(res, key), Num(cmdResult.n)))
  IN IF "writeErrors" \in DOMAIN cmdResult
     THEN SetProp(res1, "writeErrors", res1["writeErrors"] \o cmdResult.writeErrors)
     ELSE res1

\* each calling executeCmd on every remaining Command at once.
eachAtOnce(n, i) == { k \in 0..(n - 1) : i <= k }

\* each(cmds, executeCmd, idx) with n = cmds.length: the indices executeCmd
\* is called on before the call returns; none means Promise.resolve().
each(n, i) == IF i < n THEN {i} ELSE {}

\* A continuation that gives up the remaining Commands when the response
\* carries write errors.
thenEachAbort(n, j, cmdResult) ==
  IF "writeErrors" \in DOMAIN cmdResult THEN {} ELSE each(n, j + 1)

\* The continuation of executeCmd(cmds[j]) in each (part_001:220):
\* `.then(() => each(cmds, executeCmd, idx + 1))`, whatever the response.
thenEach(n, j, cmdResult) == each(n, j + 1)

\* A null check made before each is called.
commandThrowsEager(conn, sub) == conn = "null"

\* connection.command(cmd) throws a TypeError (part_001:131): connection is
\* null and executeCmd is called on some Command.
commandThrows(conn, sub) == conn = "null" /\ sub # {}

RECURSIVE Submit(_, _, _)
\* The submissions of the Commands at the 0-based indices of the set `is`,
\* lowest first, appended to the history h.
Submit(h, cs, is) ==
  IF is = {} THEN h
  ELSE LET i == CHOOSE x \in is : \A y \in is : x <= y
       IN Submit(Append(h, [index |-> i, ref |-> cs[i + 1], cmd |-> heap[cs[i + 1]]]),
                 cs, is \ {i})

\* execute(): pushCurrentCmd, the fresh result, and the call of connect().
\* The caller executes a Bulk once and issues nothing more on it afterwards
\* (the instance is discarded after execute); connect() is taken to resolve,
\* with a connection or with null.
Execute ==
  /\ pc = "building"
  /\ cmds' = pushCurrentCmd(cmds, currentCmd)
  /\ result' = NewResult
  /\ pc' = "connecting"
  /\ UNCHANGED <<ordered, heap, currentCmd, idx, inflight, connection,
                 issued, submitted, responses, stats>>
  /\ UNCHANGED cursorVars

\* The last `then` of execute (part_001:132-136), a callback of its own:
\* the chain of each has resolved, result.ok is set and the promise
\* execute returned resolves with the result.
Resolve ==
  /\ pc = "finishing"
  /\ result' = SetProp(result, "ok", Num(1))
  /\ pc' = "resolved"
  /\ UNCHANGED <<ordered, heap, cmds, currentCmd, idx, inflight, connection,
                 issued, submitted, responses, stats>>
  /\ UNCHANGED cursorVars

\* connect() resolves with a connection or with null, and the first `then`
\* of execute calls each(this.cmds, ...) (part_001:131): with no Command
\* each returns Promise.resolve() and the last `then` is due; otherwise
\* cmds[0] is passed to connection.command, which throws on null and
\* rejects the promise execute returned.
ConnectResolves(conn) ==
  /\ pc = "connecting"
  /\ connection' = conn
  /\ idx' = 0
  /\ LET sub == each(Len(cmds), 0)
     IN IF commandThrows(conn, sub)
        THEN /\ pc' = "rejected"
             /\ UNCHANGED <<inflight, submitted>>
        ELSE IF sub = {}
        THEN /\ pc' = "finishing"
             /\ UNCHANGED <<inflight, submitted>>
        ELSE /\ pc' = "running"
             /\ inflight' = sub
             /\ submitted' = Submit(submitted, cmds, sub)
  /\ UNCHANGED <<ordered, heap, cmds, currentCmd, result, issued, responses,
                 stats>>
  /\ UNCHANGED cursorVars

\* The operations of a Command: the one bucket it holds.
OpsOf(cmd) ==
  LET b == CHOOSE x \in DOMAIN cmd.bulkCollections : TRUE
  IN cmd.bulkCollections[b]

\* The name of a Command (insert, update or delete).
NameOf(cmd) == CHOOSE x \in DOMAIN cmd.cmdNames : TRUE

\* A write error the store reports for the operation at index i of a Command.
WriteError(cmd, i) ==
  LET op == OpsOf(cmd)[i + 1]
  IN [index |-> i, code |-> 11000,
      errmsg |-> IF "serial" \in DOMAIN op THEN op.serial ELSE op.q]

RECURSIVE ErrorsReported(_)
\* The number of write errors in the responses rs.
ErrorsReported(rs) ==
  IF rs = <<>> THEN 0
  ELSE (IF "writeErrors" \in DOMAIN Head(rs).res
        THEN Len(Head(rs).res.writeErrors) ELSE 0) + ErrorsReported(Tail(rs))

\* The results the store may report for a Command: all operations applied,
\* or the first one or the first two failed and reported as write errors.
AckResults(cmd) == { [n |-> Len(OpsOf(cmd))] }

StoreResults(cmd, budget) ==
  LET m == Len(OpsOf(cmd))
  IN AckResults(cmd)
     \cup (IF budget >= 1
           THEN { [n |-> m - 1, writeErrors |-> <<WriteError(cmd, 0)>>] }
           ELSE {})
     \cup (IF budget >= 2 /\ m >= 2
           THEN { [n |-> m - 2,
                   writeErrors |-> <<WriteError(cmd, 0), WriteError(cmd, 1)>>] }
           ELSE {})

\* connection.command(cmds[j]) resolves with cmdResult and the callback
\* `cmdResult => setResult(cmd, cmdResult)` runs (part_001:131): the
\* response is merged into the result; the `then` of each is due next.
CommandResolves(j, keys, cmdResult) ==
  /\ pc = "running"
  /\ j \in inflight
  /\ responses' = Append(responses, [index |-> j, res |-> cmdResult])
  /\ result' = setResult(result, keys, cmdResult)
  /\ inflight' = inflight \ {j}
  /\ pc' = "merged"
  /\ UNCHANGED <<ordered, heap, cmds, currentCmd, idx, connection, issued,
                 submitted, stats>>
  /\ UNCHANGED cursorVars

\* The callback `() => each(cmds, executeCmd, idx + 1)` runs (part_001:220)
\* after the response to cmds[idx] was merged: it reads cmds.length as it is
\* now and passes the next Command to connection.command, or, with none
\* left, returns Promise.resolve() and the last `then` of execute is due.
EachNext ==
  /\ pc = "merged"
  /\ idx' = idx + 1
  /\ LET sub == thenEach(Len(cmds), idx, responses[Len(responses)].res)
     IN /\ inflight' = sub
        /\ submitted' = Submit(submitted, cmds, sub)
        /\ pc' = IF sub = {} THEN "finishing" ELSE "running"
  /\ UNCHANGED <<ordered, heap, cmds, currentCmd, connection, result, issued,
                 responses, stats>>
  /\ UNCHANGED cursorVars

\* connection.command(cmds[j]) rejects: the chain of each rejects, and with
\* it the promise execute returned.
CommandRejects(j) ==
  /\ pc = "running"
  /\ j \in inflight
  /\ inflight' = inflight \ {j}
  /\ pc' = "rejected"
  /\ UNCHANGED <<ordered, heap, cmds, currentCmd, idx, connection, result,
                 issued, submitted, responses, stats>>
  /\ UNCHANGED cursorVars

----------------------------------------------------------------------------
(* class Cursor (part_001:229-370).                                        *)

\* The names the constructor installs setters for (part_001:242).
operations ==
  <<"batchSize", "hint", "limit", "maxTimeMS", "max", "min", "skip",
    "snapshot", "sort", "collation">>

OperationNames == { operations[i] : i \in 1..Len(operations) }

\* obj[key] = value on an object held as the sequence of its own
\* [key, value] entries in insertion order: an existing key keeps its place.
ObjSet(obj, key, value) ==
  IF \E i \in 1..Len(obj) : obj[i].key = key
  THEN [i \in 1..Len(obj) |->
          IF obj[i].key = key THEN [key |-> key, value |-> value] ELSE obj[i]]
  ELSE Append(obj, [key |-> key, value |-> value])

\* The fields the constructor sets (part_001:238-245); `cursor` is unset.
NewCursor == [_options |-> <<>>, _flags |-> <<>>, cursor |-> NullRef]

\* Cursor.prototype after `new Cursor(...)` built the instance `self`: the
\* forEach of the constructor (part_001:247-252) assigns every operation an
\* arrow function, whose `this` is the instance under construction.
protoAfterConstruct(pr, self) == [op \in OperationNames |-> self]

\* The `this` of a call a[operation](data): the instance the arrow function
\* on the prototype captured, whatever the receiver a.
setterThis(pr, a, operation) == pr[operation]

\* The Cursor instances of the exploration, in construction order: two, so
\* that each has another one constructed before it or after it.
CursorIds == {1, 2}

\* No map() / forEach() is running.
NoIter ==
  [kind |-> "none", on |-> NullRef, pc |-> "idle", call |-> 0,
   result |-> <<>>, fnLog |-> <<>>, threw |-> FALSE, pulls |-> 0,
   settled |-> "pending"]

\* The instances whose _options or _flags a step changes.
ChangedBy(before, after) ==
  { c \in 1..Len(before) :
      \/ after[c]._options # before[c]._options
      \/ after[c]._flags # before[c]._flags }

\* new Cursor(cursorFactory).
Construct ==
  /\ Len(cursors) + 1 \in CursorIds
  /\ cursors' = Append(cursors, NewCursor)
  /\ proto' = protoAfterConstruct(proto, Len(cursors) + 1)
  /\ factoryCalls' = Append(factoryCalls, 0)
  /\ UNCHANGED <<handles, calls, setterLog, iter>>
  /\ UNCHANGED bulkVars

\* a[operation](data) for a configuration setter (part_001:248-251).
SetOption(a, operation, data) ==
  /\ a \in 1..Len(cursors)
  /\ Len(setterLog) < MaxSets
  /\ LET this == setterThis(proto, a, operation)
     IN /\ cursors' = [cursors EXCEPT ![this]._options = ObjSet(@, operation, data)]
        /\ setterLog' = Append(setterLog,
             [kind |-> "option", on |-> a, key |-> operation, value |-> data,
              realized |-> cursors[a].cursor # NullRef,
              changed |-> ChangedBy(cursors, cursors'),
              recorded |-> { c \in 1..Len(cursors) :
                               \E i \in 1..Len(cursors'[c]._options) :
                                 cursors'[c]._options[i] =
                                   [key |-> operation, value |-> data] },
              returned |-> this])
  /\ UNCHANGED <<proto, handles, calls, factoryCalls, iter>>
  /\ UNCHANGED bulkVars

\* a.addCursorFlag(flag, value) (part_001:336-339).
AddCursorFlag(a, flag, value) ==
  /\ a \in 1..Len(cursors)
  /\ Len(setterLog) < MaxSets
  /\ cursors' = [cursors EXCEPT ![a]._flags = ObjSet(@, flag, value)]
  /\ setterLog' = Append(setterLog,
       [kind |-> "flag", on |-> a, key |-> flag, value |-> value,
        realized |-> cursors[a].cursor # NullRef,
        changed |-> ChangedBy(cursors, cursors'),
        recorded |-> { c \in 1..Len(cursors) :
                         \E i \in 1..Len(cursors'[c]._flags) :
                           cursors'[c]._flags[i].key = flag },
        returned |-> a])
  /\ UNCHANGED <<proto, handles, calls, factoryCalls, iter>>
  /\ UNCHANGED bulkVars

\* A consuming call that has not settled: `factory` tells whether its
\* getCursor invoked the cursor factory, `asked` whether it invoked a
\* method of its handle, `after` which calls had settled when it was made.
NewCall(a, op, stage, h) ==
  [on |-> a, op |-> op, stage |-> stage, handle |-> h,
   factory |-> (stage = "factory"), asked |-> FALSE,
   after |-> { k \in 1..Len(calls) : calls[k].stage = "done" },
   status |-> "pending", doc |-> 0, bool |-> FALSE, docs |-> <<>>, opts |-> <<>>]

\* The test of getCursor (part_001:349): is there a realized handle?
hasCursor(cur) == cur.cursor # NullRef

\* The synchronous part of getCursor for a call a[op]() (part_001:348-354):
\* it answers with the realized handle when there is one and calls the
\* cursor factory otherwise.
getCursor(a, op) ==
  IF hasCursor(cursors[a])
  THEN [call |-> NewCall(a, op, "ready", cursors[a].cursor),
        factoryCalls |-> factoryCalls]
  ELSE [call |-> NewCall(a, op, "factory", NullRef),
        factoryCalls |-> [factoryCalls EXCEPT ![a] = @ + 1]]

\* A consuming call a[op]() made by the caller, the budget-th at most.
Call(a, op, budget) ==
  /\ a \in 1..Len(cursors)
  /\ Len(calls) < budget
  /\ calls' = Append(calls, getCursor(a, op).call)
  /\ factoryCalls' = getCursor(a, op).factoryCalls
  /\ UNCHANGED <<cursors, proto, handles, setterLog, iter>>
  /\ UNCHANGED bulkVars

\* The two forEach of getCursor's `then` (part_001:356-361) with flags
\* applied before the options.
applyFlagsFirst(options, flags) ==
  [applied |-> [i \in 1..Len(options) |->
                  [key |-> options[i].key, value |-> options[i].value,
                   step |-> Len(flags) + i]],
   flags |-> [i \in 1..Len(flags) |->
                [key |-> flags[i].key, value |-> flags[i].value, step |-> i]],
   stored |-> Len(options) + Len(flags) + 1]

\* The `then` of getCursor (part_001:355-368) on a fresh handle: every own
\* key of _options is applied in Object.keys order with its current value,
\* then every own key of _flags, then the handle is stored in this.cursor.
\* `step` numbers the calls on the handle and the store in the order made.
applyRecorded(options, flags) ==
  [applied |-> [i \in 1..Len(options) |->
                  [key |-> options[i].key, value |-> options[i].value,
                   step |-> i]],
   flags |-> [i \in 1..Len(flags) |->
                [key |-> flags[i].key, value |-> flags[i].value,
                 step |-> Len(options) + i]],
   stored |-> Len(options) + Len(flags) + 1]

\* The promise of the cursor factory of call c resolves with a fresh handle
\* and the `then` of getCursor (part_001:355-368) runs.
FactoryResolves(c) ==
  /\ c \in 1..Len(calls)
  /\ calls[c].stage = "factory"
  /\ LET a == calls[c].on
         h == Len(handles) + 1
         done == applyRecorded(cursors[a]._options, cursors[a]._flags)
     IN /\ handles' = Append(handles,
             [owner |-> a, applied |-> done.applied, flags |-> done.flags,
              stored |-> done.stored, at |-> Len(setterLog),
              closed |-> FALSE, killed |-> FALSE, pos |-> 0])
        /\ cursors' = [cursors EXCEPT ![a].cursor = h]
        /\ calls' = [calls EXCEPT ![c].stage = "ready", ![c].handle = h]
  /\ UNCHANGED <<proto, factoryCalls, setterLog, iter>>
  /\ UNCHANGED bulkVars

\* The number of promises of the store that have rejected.
Failures == Cardinality({ c \in 1..Len(calls) : calls[c].status = "rejected" })

\* The promise of the cursor factory of call c rejects, or resolves with
\* undefined (no collection: collection.ts:44-51), on which the `then` of
\* getCursor throws a TypeError (part_001:357, 363): the call rejects and
\* this.cursor stays unset.
FactoryFails(c) ==
  /\ c \in 1..Len(calls)
  /\ calls[c].stage = "factory"
  /\ Failures < MaxFailures
  /\ calls' = [calls EXCEPT ![c].stage = "done", ![c].status = "rejected"]
  /\ UNCHANGED <<cursors, proto, handles, factoryCalls, setterLog, iter>>
  /\ UNCHANGED bulkVars

\* Does the `then` of the consuming call c invoke a method of its handle?
\* next tests cursor.closed || cursor.killed first (part_001:316), hasNext
\* tests cursor.closed (part_001:325); the other calls always invoke it.
asksHandle(c) ==
  LET hd == handles[calls[c].handle]
  IN CASE calls[c].op = "next" -> ~(hd.closed \/ hd.killed)
       [] calls[c].op = "hasNext" -> ~hd.closed
       [] OTHER -> TRUE

\* The `then` of a consuming call runs on the handle getCursor resolved
\* with (part_001:294-334): next and hasNext settle at once, with null and
\* with false, on a handle they find closed (next: or killed); otherwise
\* the method of the handle is invoked, count and size with this._options
\* as they are now, and the call waits for the promise the handle returned.
Continue(c) ==
  /\ c \in 1..Len(calls)
  /\ calls[c].stage = "ready"
  /\ calls[c].handle # NullRef
  /\ IF asksHandle(c)
     THEN calls' = [calls EXCEPT
            ![c].stage = "asked",
            ![c].asked = TRUE,
            ![c].opts = IF calls[c].op = "count"
                        THEN cursors[calls[c].on]._options ELSE @]
     ELSE calls' = [calls EXCEPT ![c].stage = "done", ![c].status = "resolved"]
  /\ UNCHANGED <<cursors, proto, handles, factoryCalls, setterLog, iter>>
  /\ UNCHANGED bulkVars

\* The promise of the handle method the consuming call c invoked resolves:
\* the store answers from the state the handle is in now, and the call
\* resolves with the answer.  A closed handle has no document left; close
\* marks the handle closed and rewind puts it back before its first
\* document.
HandleAnswers(c) ==
  /\ c \in 1..Len(calls)
  /\ calls[c].stage = "asked"
  /\ LET h == calls[c].handle
         hd == handles[h]
         op == calls[c].op
         more == hd.pos < NumDocs
         done == [calls[c] EXCEPT !.stage = "done", !.status = "resolved"]
     IN CASE op = "next" ->
               IF hd.closed \/ ~more
               THEN /\ calls' = [calls EXCEPT ![c] = done]
                    /\ UNCHANGED handles
               ELSE /\ calls' = [calls EXCEPT ![c] = [done EXCEPT !.doc = hd.pos + 1]]
                    /\ handles' = [handles EXCEPT ![h].pos = @ + 1]
          [] op = "hasNext" ->
               /\ calls' = [calls EXCEPT ![c] = [done EXCEPT !.bool = ~hd.closed /\ more]]
               /\ UNCHANGED handles
          [] op = "toArray" ->
               /\ calls' = [calls EXCEPT ![c] =
                    [done EXCEPT !.docs = [i \in 1..(NumDocs - hd.pos) |-> hd.pos + i]]]
               /\ handles' = [handles EXCEPT ![h].pos = NumDocs]
          [] op = "close" ->
               /\ calls' = [calls EXCEPT ![c] = done]
               /\ handles' = [handles EXCEPT ![h].closed = TRUE]
          [] op = "rewind" ->
               /\ calls' = [calls EXCEPT ![c] = done]
               /\ handles' = [handles EXCEPT ![h].pos = 0]
          [] op \in {"count", "explain"} ->
               /\ calls' = [calls EXCEPT ![c] = done]
               /\ UNCHANGED handles
  /\ UNCHANGED <<cursors, proto, factoryCalls, setterLog, iter>>
  /\ UNCHANGED bulkVars

\* The promise of the handle method the consuming call c invoked rejects
\* (the store fails): the call rejects.
HandleRejects(c) ==
  /\ c \in 1..Len(calls)
  /\ calls[c].stage = "asked"
  /\ Failures < MaxFailures
  /\ calls' = [calls EXCEPT ![c].stage = "done", ![c].status = "rejected"]
  /\ UNCHANGED <<cursors, proto, handles, factoryCalls, setterLog, iter>>
  /\ UNCHANGED bulkVars

\* The store kills the open handle h (its server-side cursor is gone): the
\* handle reports killed from now on.
HandleKilled(h) ==
  /\ h \in 1..Len(handles)
  /\ ~handles[h].killed
  /\ ~handles[h].closed
  /\ handles' = [handles EXCEPT ![h].killed = TRUE]
  /\ UNCHANGED <<cursors, proto, calls, factoryCalls, setterLog, iter>>
  /\ UNCHANGED bulkVars

----------------------------------------------------------------------------
(* Cursor.map and Cursor.forEach (part_001:255-291).                       *)

\* What the caller's fn returns for a document, when it returns.
Fn(doc) == doc + NumDocs

\* What a call fn(doc) of the caller's function does (part_001:264, 282).
FnOutcomes == {"returns", "throws"}

\* loop() (part_001:259-269, 277-287): this.next() is called and its `then`
\* registered.
loop(it, c) == [it EXCEPT !.pc = "pulling", !.call = c, !.pulls = @ + 1]

\* a.map(fn) or a.forEach(fn): the executor of the returned promise calls
\* loop() (part_001:271, 289).
Iterate(a, kind) ==
  /\ a \in 1..Len(cursors)
  /\ iter.kind = "none"
  /\ calls' = Append(calls, getCursor(a, "next").call)
  /\ factoryCalls' = getCursor(a, "next").factoryCalls
  /\ iter' = loop([NoIter EXCEPT !.kind = kind, !.on = a], Len(calls) + 1)
  /\ UNCHANGED <<cursors, proto, handles, setterLog>>
  /\ UNCHANGED bulkVars

\* The `then` of loop() (part_001:261-268, 279-286) on the document the
\* pull resolved with (0 is null): no document resolves the promise, with
\* the array for map and with undefined for forEach; a document is given to
\* fn, map pushes what fn returns, and setImmediate(loop) is called.  When
\* fn throws, the promise `then` returned rejects and nothing handles it:
\* setImmediate(loop) is not reached and the returned promise stays as it is.
thenDoc(it, doc, outcome) ==
  IF doc = 0
  THEN [it EXCEPT !.pc = "done",
                  !.settled = IF it.kind = "map" THEN "array" ELSE "undefined"]
  ELSE IF outcome = "throws"
  THEN [it EXCEPT !.pc = "unhandled",
                  !.fnLog = Append(@, doc),
                  !.threw = TRUE]
  ELSE [it EXCEPT !.pc = "scheduled",
                  !.fnLog = Append(@, doc),
                  !.result = IF it.kind = "map" THEN Append(@, Fn(doc)) ELSE @]

\* The pull of the running map / forEach has resolved: its `then` runs, and
\* the call of fn in it returns or throws.
IterThen(outcome) ==
  /\ iter.pc = "pulling"
  /\ calls[iter.call].stage = "done"
  /\ calls[iter.call].status = "resolved"
  /\ iter' = thenDoc(iter, calls[iter.call].doc, outcome)
  /\ UNCHANGED <<cursors, proto, handles, calls, factoryCalls, setterLog>>
  /\ UNCHANGED bulkVars

\* The pull of the running map / forEach has rejected: the promise `then`
\* returned rejects and nothing handles it (no catch, and the executor takes
\* no reject: part_001:258-269, 276-287); the returned promise stays as it is.
IterUnhandled ==
  /\ iter.pc = "pulling"
  /\ calls[iter.call].stage = "done"
  /\ calls[iter.call].status = "rejected"
  /\ iter' = [iter EXCEPT !.pc = "unhandled"]
  /\ UNCHANGED <<cursors, proto, handles, calls, factoryCalls, setterLog>>
  /\ UNCHANGED bulkVars

\* The callback given to setImmediate runs: loop() (part_001:267, 285).
IterLoop ==
  /\ iter.pc = "scheduled"
  /\ calls' = Append(calls, getCursor(iter.on, "next").call)
  /\ factoryCalls' = getCursor(iter.on, "next").factoryCalls
  /\ iter' = loop(iter, Len(calls) + 1)
  /\ UNCHANGED <<cursors, proto, handles, setterLog>>
  /\ UNCHANGED bulkVars

----------------------------------------------------------------------------
(* Specifications.                                                         *)

\* The calls the caller draws from, one per kind of operation: insert of a
\* document without an _id, find(q).upsert().updateOne(u) and
\* find(q).removeOne().  The kinds and their order decide the batching; the
\* arguments are carried through to the Commands unread.
InsertCalls == {FALSE}
UpdateCalls == { [multi |-> FALSE, upsert |-> TRUE] }
RemoveCalls == {1}

InitCursors ==
  /\ cursors = <<>>
  /\ proto = [op \in OperationNames |-> NullRef]
  /\ handles = <<>>
  /\ calls = <<>>
  /\ factoryCalls = <<>>
  /\ setterLog = <<>>
  /\ iter = NoIter

Init ==
  /\ InitCursors
  /\ ordered \in BOOLEAN
  /\ heap = <<>>
  /\ cmds = <<>>
  /\ currentCmd = NullRef
  /\ pc = "building"
  /\ idx = 0
  /\ inflight = {}
  /\ connection = "none"
  /\ result = <<>>
  /\ issued = <<>>
  /\ submitted = <<>>
  /\ responses = <<>>
  /\ stats = <<>>

\* One Bulk, from construction to the settling of execute(); the store may
\* report write errors and may reject a Command.
Next ==
  \/ \E hasId \in InsertCalls : Insert(hasId)
  \/ \E c \in UpdateCalls : Update(c.multi, c.upsert)
  \/ \E limit \in RemoveCalls : Remove(limit)
  \/ Execute
  \/ \E conn \in {"db", "null"} : ConnectResolves(conn)
  \/ \E j \in inflight, keys \in CommandKeyOrders :
       \E r \in StoreResults(heap[cmds[j + 1]],
                             MaxWriteErrors - ErrorsReported(responses)) :
         CommandResolves(j, keys, r)
  \/ EachNext
  \/ Resolve
  \/ \E j \in inflight : CommandRejects(j)

Spec == Init /\ [][Next]_vars

\* One Bulk whose caller also inspects it with tojson(); the store
\* acknowledges every Command.
NextStats ==
  \/ \E hasId \in InsertCalls : Insert(hasId)
  \/ \E c \in UpdateCalls : Update(c.multi, c.upsert)
  \/ \E limit \in RemoveCalls : Remove(limit)
  \/ Tojson
  \/ Execute
  \/ \E conn \in {"db", "null"} : ConnectResolves(conn)
  \/ \E j \in inflight, keys \in CommandKeyOrders :
       \E r \in AckResults(heap[cmds[j + 1]]) : CommandResolves(j, keys, r)
  \/ EachNext
  \/ Resolve

SpecStats == Init /\ [][NextStats]_vars

\* The setters and flags the callers draw from (the k-th setter call passes
\* the value k), and the consuming calls they make.
SetterCalls == {"limit", "sort"}
FlagCalls == {"tailable"}
ConsumingCalls ==
  {"next", "hasNext", "toArray", "count", "close", "rewind", "explain"}

\* The Bulk variables, idle, of the specifications of the Cursor.
IdleBulk ==
  /\ ordered = TRUE
  /\ heap = <<>>
  /\ cmds = <<>>
  /\ currentCmd = NullRef
  /\ pc = "building"
  /\ idx = 0
  /\ inflight = {}
  /\ connection = "none"
  /\ result = <<>>
  /\ issued = <<>>
  /\ submitted = <<>>
  /\ responses = <<>>
  /\ stats = <<>>

\* What the callers of a Cursor do once it is constructed: configure it and
\* consume it, also while another consuming call is pending.
NextCursor ==
  \/ \E a \in 1..Len(cursors), o \in SetterCalls :
       SetOption(a, o, Len(setterLog) + 1)
  \/ \E a \in 1..Len(cursors), f \in FlagCalls : AddCursorFlag(a, f, TRUE)
  \/ \E a \in 1..Len(cursors), op \in ConsumingCalls : Call(a, op, MaxCalls)
  \/ \E c \in 1..Len(calls) : FactoryResolves(c)
  \/ \E c \in 1..Len(calls) : FactoryFails(c)
  \/ \E c \in 1..Len(calls) : Continue(c)
  \/ \E c \in 1..Len(calls) : HandleAnswers(c)
  \/ \E c \in 1..Len(calls) : HandleRejects(c)
  \/ \E h \in 1..Len(handles) : HandleKilled(h)

\* One Cursor, from the state `new Cursor(cursorFactory)` leaves.
InitCursor ==
  /\ IdleBulk
  /\ cursors = <<NewCursor>>
  /\ proto = protoAfterConstruct([op \in OperationNames |-> NullRef], 1)
  /\ handles = <<>>
  /\ calls = <<>>
  /\ factoryCalls = <<0>>
  /\ setterLog = <<>>
  /\ iter = NoIter

SpecCursor == InitCursor /\ [][NextCursor]_vars

\* Several Cursors, constructed while the earlier ones are in use.
InitCursorsIdle == IdleBulk /\ InitCursors

\* The Cursors are constructed, configured and realized.
NextCursors ==
  \/ Construct
  \/ \E a \in 1..Len(cursors), o \in SetterCalls :
       SetOption(a, o, Len(setterLog) + 1)
  \/ \E a \in 1..Len(cursors), f \in FlagCalls : AddCursorFlag(a, f, TRUE)
  \/ \E a \in 1..Len(cursors), op \in {"next", "count"} : Call(a, op, MaxCalls)
  \/ \E c \in 1..Len(calls) : FactoryResolves(c)
  \/ \E c \in 1..Len(calls) : Continue(c)
  \/ \E c \in 1..Len(calls) : HandleAnswers(c)

SpecCursors == InitCursorsIdle /\ [][NextCursors]_vars

\* The consuming call of the callers that only realize the Cursor: every
\* consuming call goes through the same getCursor.
RealizingCalls == {"next"}

\* One Cursor that is configured while consuming calls realize it; the
\* cursor factory may fail, the handles answer every call.
NextRealize ==
  \/ \E a \in 1..Len(cursors), o \in SetterCalls :
       SetOption(a, o, Len(setterLog) + 1)
  \/ \E a \in 1..Len(cursors), f \in FlagCalls : AddCursorFlag(a, f, TRUE)
  \/ \E a \in 1..Len(cursors), op \in RealizingCalls : Call(a, op, MaxCalls)
  \/ \E c \in 1..Len(calls) : FactoryResolves(c)
  \/ \E c \in 1..Len(calls) : FactoryFails(c)
  \/ \E c \in 1..Len(calls) : Continue(c)
  \/ \E c \in 1..Len(calls) : HandleAnswers(c)

SpecRealize == InitCursor /\ [][NextRealize]_vars

\* The consuming calls of the callers that pull and close.
PullingCalls == {"next", "hasNext", "close"}

\* One Cursor that is pulled from and closed, by one consuming call more
\* than the other specifications explore; the store answers every request.
NextClose ==
  \/ \E a \in 1..Len(cursors), op \in PullingCalls : Call(a, op, MaxCalls + 1)
  \/ \E c \in 1..Len(calls) : FactoryResolves(c)
  \/ \E c \in 1..Len(calls) : Continue(c)
  \/ \E c \in 1..Len(calls) : HandleAnswers(c)

SpecClose == InitCursor /\ [][NextClose]_vars

\* The two iterating calls.
IteratingCalls == {"map", "forEach"}

\* One Cursor that is configured and then iterated with map(fn) or
\* forEach(fn); the cursor factory and the pulls may fail.
NextIter ==
  \/ \E a \in 1..Len(cursors), o \in SetterCalls :
       SetOption(a, o, Len(setterLog) + 1)
  \/ \E a \in 1..Len(cursors), f \in FlagCalls : AddCursorFlag(a, f, TRUE)
  \/ \E a \in 1..Len(cursors), kind \in IteratingCalls : Iterate(a, kind)
  \/ \E c \in 1..Len(calls) : FactoryResolves(c)
  \/ \E c \in 1..Len(calls) : FactoryFails(c)
  \/ \E c \in 1..Len(calls) : Continue(c)
  \/ \E c \in 1..Len(calls) : HandleAnswers(c)
  \/ \E c \in 1..Len(calls) : HandleRejects(c)
  \/ \E outcome \in FnOutcomes : IterThen(outcome)
  \/ IterUnhandled
  \/ IterLoop

\* The store settles the promise of every request it was sent (the factory
\* promise, the promise of a handle method), and the event loop runs every
\* callback that is due: the `then` callbacks of settled promises and the
\* callback given to setImmediate.
FairIter ==
  /\ WF_vars(\E c \in 1..Len(calls) : FactoryResolves(c) \/ FactoryFails(c))
  /\ WF_vars(\E c \in 1..Len(calls) : Continue(c))
  /\ WF_vars(\E c \in 1..Len(calls) : HandleAnswers(c) \/ HandleRejects(c))
  /\ WF_vars(\E outcome \in FnOutcomes : IterThen(outcome))
  /\ WF_vars(IterUnhandled)
  /\ WF_vars(IterLoop)

SpecIter == InitCursor /\ [][NextIter]_vars /\ FairIter

----------------------------------------------------------------------------
(* What the caller issued and what the store reported.                     *)

RECURSIVE RunLengths(_)
\* The lengths of the maximal runs of consecutive same-kind operations of s.
RunLengths(s) ==
  IF s = <<>> THEN <<>>
  ELSE LET rest == RunLengths(Tail(s))
       IN IF Len(s) >= 2 /\ s[1].cmdName = s[2].cmdName
          THEN <<Head(rest) + 1>> \o Tail(rest)
          ELSE <<1>> \o rest

Ceil(n, d) == (n + d - 1) \div d

RECURSIVE SumCeil(_)
SumCeil(runs) ==
  IF runs = <<>> THEN 0
  ELSE Ceil(Head(runs), MAX_BULK_SIZE) + SumCeil(Tail(runs))

\* The number of Commands the operations s are to be grouped into.
ExpectedCommands(s) == SumCeil(RunLengths(s))

RECURSIVE SumN(_, _)
\* The sum of the n of the responses rs to the Commands named cmdName.
SumN(rs, cmdName) ==
  IF rs = <<>> THEN 0
  ELSE (IF NameOf(heap[cmds[Head(rs).index + 1]]) = cmdName
        THEN Head(rs).res.n ELSE 0) + SumN(Tail(rs), cmdName)

RECURSIVE AllWriteErrors(_)
\* The write errors of the responses rs, in the order they were received.
AllWriteErrors(rs) ==
  IF rs = <<>> THEN <<>>
  ELSE (IF "writeErrors" \in DOMAIN Head(rs).res
        THEN Head(rs).res.writeErrors ELSE <<>>) \o AllWriteErrors(Tail(rs))

\* The number of operations named cmdName among s.
CountOps(s, cmdName) ==
  Cardinality({ i \in 1..Len(s) : s[i].cmdName = cmdName })

Executing ==
  pc \in {"connecting", "running", "merged", "finishing", "resolved", "rejected"}

----------------------------------------------------------------------------
(* Bulk: the claims.                                                       *)

\* C1: after insert / find-terminal calls and one execute() (and no
\* tojson()), the list of Commands execute() has to submit holds
\* ceil(run length / MAX_BULK_SIZE) Commands for each maximal run of
\* same-kind operations, and when execute() has resolved exactly that many
\* Commands were passed to connection.command.
C1_CommandCount ==
  (Executing /\ stats = <<>>) =>
    /\ Len(cmds) = ExpectedCommands(issued)
    /\ Len(submitted) <= Len(cmds)
    /\ (pc = "resolved" => Len(submitted) = ExpectedCommands(issued))

\* C1: two and a half caps of inserts were submitted as three Commands.
C1_Witness ==
  /\ pc = "resolved"
  /\ Len(issued) = 2 * MAX_BULK_SIZE + 1
  /\ \A i \in 1..Len(issued) : issued[i].cmdName = "insert"
  /\ Len(submitted) = 3

\* C2: when execute() resolves, nInserted, nRemoved and the update counter
\* (nUpserted) each equal the sum of the n reported for the Commands of
\* their kind.
C2_CountsMatch ==
  pc = "resolved" =>
    /\ result["nInserted"] = Num(SumN(responses, "insert"))
    /\ result["nRemoved"] = Num(SumN(responses, "delete"))
    /\ result["nUpserted"] = Num(SumN(responses, "update"))

\* C3: at most one Command is in flight, Commands are submitted in list
\* order, and a Command is submitted only when the responses of all the
\* Commands before it were received and merged, ordered or not.
C3_OneInFlight ==
  /\ Cardinality(inflight) <= 1
  /\ Len(submitted) = Len(responses) + Cardinality(inflight)
                       + (IF pc = "rejected" /\ connection = "db" THEN 1 ELSE 0)
  /\ \A i \in 1..Len(submitted) :
       submitted[i].index = i - 1 /\ submitted[i].ref = cmds[i]
  /\ \A i \in 1..Len(responses) : responses[i].index = i - 1
  /\ (pc = "running" => inflight = {idx})
  /\ (pc = "merged" => inflight = {} /\ Len(responses) = idx + 1)

\* C3: an unordered Bulk waits for its second response.
C3_Witness ==
  /\ ~ordered
  /\ pc = "running"
  /\ Len(responses) = 1
  /\ inflight = {1}

\* C4: once a response has reported write errors, execute() (unless the
\* store rejects a Command) goes on to submit the next Command and resolves
\* only when every Command of the list was submitted: either the response
\* was just merged and the continuation of each is due, or the next Command
\* is in flight, or every Command was submitted and execute() resolves.
C4_ContinuesAfterWriteErrors ==
  (ErrorsReported(responses) > 0 /\ pc # "rejected") =>
    \/ pc = "merged" /\ Len(submitted) = Len(responses)
    \/ pc = "running" /\ Len(submitted) = Len(responses) + 1
    \/ pc \in {"finishing", "resolved"} /\ Len(submitted) = Len(cmds)

\* C4: an ordered Bulk whose first Command reported a write error has
\* submitted its three Commands and resolved.
C4_Witness ==
  /\ ordered
  /\ pc = "resolved"
  /\ Len(cmds) = 3
  /\ "writeErrors" \in DOMAIN responses[1].res
  /\ Len(submitted) = 3

\* C5: the writeErrors of the result are the concatenation, in submission
\* order, of the writeErrors of the responses.
C5_WriteErrorsInOrder ==
  Executing => result["writeErrors"] = AllWriteErrors(responses)

\* C5: two Commands reported write errors and execute() resolved.
C5_Witness ==
  /\ pc = "resolved"
  /\ \E i, j \in 1..Len(responses) :
       /\ i < j
       /\ "writeErrors" \in DOMAIN responses[i].res
       /\ "writeErrors" \in DOMAIN responses[j].res
  /\ Len(result["writeErrors"]) = 2

\* C6: a call of tojson() changes neither the list of Commands nor the
\* current open Command.
C6_TojsonLeavesState ==
  [][Len(stats') > Len(stats) =>
       (cmds' = cmds /\ currentCmd' = currentCmd /\ heap' = heap)]_vars

\* C7: tojson() returns the numbers of insert, update and delete operations
\* accumulated when it was called, and the number of Commands they are
\* grouped into.
C7_StatsCount ==
  \A i \in 1..Len(stats) :
    LET sofar == SubSeq(issued, 1, stats[i].at)
    IN /\ stats[i].obj.nInsertOps = CountOps(sofar, "insert")
       /\ stats[i].obj.nUpdateOps = CountOps(sofar, "update")
       /\ stats[i].obj.nRemoveOps = CountOps(sofar, "delete")
       /\ stats[i].obj.nBatches = ExpectedCommands(sofar)

\* C8: execute() on a Bulk that received no operation submits no Command
\* and resolves, never rejects, with all counts zero and no write error.
C8_EmptyExecute ==
  (issued = <<>> /\ Executing) =>
    /\ pc \in {"connecting", "finishing", "resolved"}
    /\ submitted = <<>>
    /\ \A k \in {"nInserted", "nUpserted", "nMatched", "nModified", "nRemoved"} :
         result[k] = Num(0)
    /\ result["writeErrors"] = <<>>

\* C8: an empty execute() has resolved.
C8_Witness ==
  /\ issued = <<>>
  /\ pc = "resolved"
  /\ result["ok"] = Num(1)

RECURSIVE ConcatOps(_)
\* The operations of the submitted Commands subs, concatenated in order.
ConcatOps(subs) ==
  IF subs = <<>> THEN <<>>
  ELSE OpsOf(Head(subs).cmd) \o ConcatOps(Tail(subs))

\* C18: after insert / find-terminal calls and one execute() that resolved,
\* the operations of the submitted Commands, concatenated in submission
\* order, are the operations in the order the caller issued them.
C18_OperationsInOrder ==
  (pc = "resolved" /\ stats = <<>>) =>
    ConcatOps(submitted) = [i \in 1..Len(issued) |-> issued[i].op]

\* C18: insert, insert, insert, update, delete were submitted as four
\* Commands (the run of inserts split at the cap) and execute() resolved.
C18_Witness ==
  /\ pc = "resolved"
  /\ Len(issued) = MAX_BULK_SIZE + 3
  /\ \A i \in 1..(MAX_BULK_SIZE + 1) : issued[i].cmdName = "insert"
  /\ issued[MAX_BULK_SIZE + 2].cmdName = "update"
  /\ issued[MAX_BULK_SIZE + 3].cmdName = "delete"
  /\ Len(submitted) = 4

\* The Commands a Bulk holds: the ones of the list and the open one.
HeldCommands == { cmds[i] : i \in 1..Len(cmds) } \cup ({currentCmd} \ {NullRef})

\* C19: every Command of the list and the open Command hold operations of
\* one kind (one name, one bucket) and at most MAX_BULK_SIZE of them, and a
\* step never changes a Command that is in the list.
C19_CommandShape ==
  [][ /\ \A r \in HeldCommands' :
           /\ Cardinality(DOMAIN heap'[r].cmdNames) = 1
           /\ Cardinality(DOMAIN heap'[r].bulkCollections) = 1
           /\ Len(OpsOf(heap'[r])) <= MAX_BULK_SIZE
      /\ \A i \in 1..Len(cmds) : heap'[cmds[i]] = heap[cmds[i]] ]_vars

\* C16: when connect() resolved with null, execute() on a Bulk that holds
\* at least one Command does not reject (it resolves with an absent result).
C16_NoConnectionNoThrow ==
  (connection = "null" /\ Len(cmds) >= 1) => pc # "rejected"

----------------------------------------------------------------------------
(* Cursor: the claims.                                                     *)

\* The consuming calls made on the Cursor a.
CallsOn(a) == { c \in 1..Len(calls) : calls[c].on = a }

\* The handles realized for the Cursor a.
HandlesOf(a) == { h \in 1..Len(handles) : handles[h].owner = a }

\* C9: a Cursor whose factory never failed has had its factory invoked
\* exactly once as soon as a consuming call was made on it, and owns at
\* most one realized handle, also when consuming calls overlap.
C9_FactoryOnce ==
  \A a \in 1..Len(cursors) :
    (\A c \in CallsOn(a) : calls[c].status # "rejected") =>
      /\ factoryCalls[a] <= 1
      /\ (CallsOn(a) # {} => factoryCalls[a] = 1)
      /\ Cardinality(HandlesOf(a)) <= 1

\* C10: a configuration setter called on a Cursor records the value in that
\* Cursor's own options, returns that Cursor, and changes the options of no
\* other Cursor.
C10_SetterOwnInstance ==
  \A i \in 1..Len(setterLog) :
    /\ setterLog[i].on \in setterLog[i].recorded
    /\ setterLog[i].returned = setterLog[i].on
    /\ setterLog[i].changed \subseteq {setterLog[i].on}

\* The setter calls among the first n that recorded an option on the
\* Cursor a, and the addCursorFlag calls among them made on a.
OptionsIn(log, a, n) ==
  SelectSeq(SubSeq(log, 1, n),
            LAMBDA e : e.kind = "option" /\ a \in e.recorded)

OptionLog(a, n) == OptionsIn(setterLog, a, n)

FlagLog(a, n) ==
  SelectSeq(SubSeq(setterLog, 1, n),
            LAMBDA e : e.kind = "flag" /\ a \in e.recorded)

RECURSIVE FirstRecorded(_)
\* The keys of the log entries, each once, in the order first recorded.
FirstRecorded(log) ==
  IF log = <<>> THEN <<>>
  ELSE LET before == FirstRecorded(SubSeq(log, 1, Len(log) - 1))
           key == log[Len(log)].key
       IN IF \E i \in 1..Len(before) : before[i] = key
          THEN before ELSE Append(before, key)

\* The value the last entry of the log for the key wrote.
LastWritten(log, key) ==
  log[CHOOSE i \in 1..Len(log) :
        /\ log[i].key = key
        /\ \A j \in (i + 1)..Len(log) : log[j].key # key].value

\* C11: on every handle a factory produced, the options recorded on the
\* Cursor by then were applied once each, in the order first recorded and
\* with the last value written, the recorded flags were applied after all
\* the options, and the handle was stored in this.cursor after all of them.
C11_AppliedAtRealization ==
  \A h \in 1..Len(handles) :
    LET hd == handles[h]
        ol == OptionLog(hd.owner, hd.at)
        fl == FlagLog(hd.owner, hd.at)
        okeys == FirstRecorded(ol)
        fkeys == FirstRecorded(fl)
    IN /\ Len(hd.applied) = Len(okeys)
       /\ \A i \in 1..Len(okeys) :
            /\ hd.applied[i].key = okeys[i]
            /\ hd.applied[i].value = LastWritten(ol, okeys[i])
            /\ hd.applied[i].step = i
       /\ Len(hd.flags) = Len(fkeys)
       /\ \A i \in 1..Len(fkeys) :
            /\ hd.flags[i].key = fkeys[i]
            /\ hd.flags[i].value = LastWritten(fl, fkeys[i])
            /\ hd.flags[i].step = Len(okeys) + i
       /\ hd.stored = Len(okeys) + Len(fkeys) + 1

\* C11: a Cursor was realized after an option and a flag were recorded on
\* it, the option before the first consuming call.
C11_Witness ==
  \E h \in 1..Len(handles) :
    /\ cursors[handles[h].owner].cursor = h
    /\ Len(handles[h].applied) >= 1
    /\ Len(handles[h].flags) >= 1
    /\ setterLog[1].kind = "option" /\ ~setterLog[1].realized
\* C12: a setter or addCursorFlag call made on a realized Cursor changes no
\* recorded option or flag, and count() / size() pass the handle the
\* options as they were applied at realization.
C12_FrozenOnceRealized ==
  /\ \A i \in 1..Len(setterLog) :
       setterLog[i].realized => setterLog[i].changed = {}
  /\ \A c \in 1..Len(calls) :
       (calls[c].op = "count" /\ calls[c].status = "resolved") =>
         calls[c].opts =
           [i \in 1..Len(handles[calls[c].handle].applied) |->
              [key |-> handles[calls[c].handle].applied[i].key,
               value |-> handles[calls[c].handle].applied[i].value]]

\* C14: a close() made on a Cursor that has no realized handle does not
\* invoke the cursor factory, so that no handle is opened for it.
C14_CloseUnrealized ==
  \A c \in 1..Len(calls) :
    calls[c].op = "close" => (~calls[c].factory /\ calls[c].handle = NullRef)
\* The close() calls that had resolved when the consuming call c was made.
ClosedBefore(c) ==
  { k \in calls[c].after :
      calls[k].op = "close" /\ calls[k].status = "resolved" }

\* C13: a next() or hasNext() that has settled and was called after a
\* close() of the Cursor resolved has resolved, with null or with false, and
\* has invoked neither the cursor factory nor a method of the handle.
C13_ClosedIsTerminal ==
  \A c \in 1..Len(calls) :
    (/\ calls[c].op \in {"next", "hasNext"}
     /\ calls[c].stage = "done"
     /\ ClosedBefore(c) # {})
    => /\ calls[c].status = "resolved"
       /\ calls[c].doc = 0
       /\ calls[c].bool = FALSE
       /\ ~calls[c].factory
       /\ ~calls[c].asked
\* The consuming calls whose cursor factory failed.
FactoryFailed(cs) ==
  { c \in 1..Len(cs) :
      cs[c].factory /\ cs[c].stage = "done" /\ cs[c].handle = NullRef }

\* The calls made after the factory of call c had failed.
MadeAfter(cs, c) == { d \in 1..Len(cs) : c \in cs[d].after }

\* C15: a consuming call whose cursor factory fails rejects, and the
\* Cursor is left without a realized handle, its options and flags
\* unchanged; the first consuming call made after the failure invokes the
\* factory again (and so does every later one until one has realized the
\* Cursor), and the handle such a call realizes has the recorded options
\* applied.
C15_FactoryFailure ==
  [][ /\ \A c \in FactoryFailed(calls') : calls'[c].status = "rejected"
      /\ \A c \in FactoryFailed(calls') \ FactoryFailed(calls) :
           /\ cursors' = cursors
           /\ cursors'[calls'[c].on].cursor = NullRef
      /\ \A c \in FactoryFailed(calls') : \A d \in MadeAfter(calls', c) :
           /\ \/ calls'[d].factory
              \/ \E e \in MadeAfter(calls', c) :
                   /\ e < d
                   /\ calls'[e].factory
                   /\ calls'[e].handle # NullRef
           /\ (calls'[d].factory /\ calls'[d].handle # NullRef) =>
                LET hd == handles'[calls'[d].handle]
                    ol == OptionsIn(setterLog', hd.owner, hd.at)
                    okeys == FirstRecorded(ol)
                IN /\ Len(hd.applied) = Len(okeys)
                   /\ \A i \in 1..Len(okeys) :
                        /\ hd.applied[i].key = okeys[i]
                        /\ hd.applied[i].value = LastWritten(ol, okeys[i])
    ]_vars

\* Some pull of the consuming calls made so far has rejected.
PullRejected == \E c \in 1..Len(calls) : calls[c].status = "rejected"

\* The documents 1..n in store order.
StoreOrder(n) == [i \in 1..n |-> i]

\* What C17 says of every state of a map / forEach: one pull outstanding at
\* most, fn given the documents once each in store order, and a settled
\* promise resolved after the whole sequence, map with the array of what
\* fn returned in that order.
C17_Safe ==
  /\ Cardinality({ c \in 1..Len(calls) : calls[c].stage # "done" }) <= 1
  /\ iter.fnLog = StoreOrder(Len(iter.fnLog))
  /\ Len(iter.fnLog) <= NumDocs
  /\ iter.settled # "pending" =>
       /\ iter.fnLog = StoreOrder(NumDocs)
       /\ iter.pulls = NumDocs + 1
       /\ iter.kind = "map" =>
            /\ iter.settled = "array"
            /\ iter.result = [i \in 1..NumDocs |-> Fn(i)]
       /\ iter.kind = "forEach" =>
            /\ iter.settled = "undefined"
            /\ iter.result = <<>>

\* C17: a map(fn) / forEach(fn) over a finite sequence none of whose pulls
\* rejects eventually resolves, whatever fn does; it never has two pulls
\* outstanding, gives fn every document once in store order, and map
\* resolves with the array of the results of fn in that order.
C17_IterationCompletes ==
  /\ []C17_Safe
  /\ (iter.kind # "none") ~> (iter.settled # "pending" \/ PullRejected)

\* C20: once a pull of a running map / forEach has rejected, the promise
\* map / forEach returned eventually rejects.
C20_RejectionBubbles ==
  (iter.kind # "none" /\ PullRejected) ~> (iter.settled = "rejected")
====
